---- MODULE Spec2Model ----
(***************************************************************************)
(* A model of the sponge caching proxy (sponge.go, latest revision:        *)
(* type SpongeHandler with cache, cacheExpire, mutex and serveMutex).      *)
(*                                                                         *)
(* Goroutines: one per ServeHTTP request, one per checkTick poller (the    *)
(* poller of request r is indexed by r: a request calls checkTick at most  *)
(* once), and the doCacheExpiry sweeper.  Time is a discrete clock `now`   *)
(* that may advance between any two steps, so a backend call, a lock wait  *)
(* or a scheduling delay may take arbitrarily long.                        *)
(***************************************************************************)
EXTENDS Integers, FiniteSets, Sequences, TLC

(* ------------------------------ bounds -------------------------------- *)
NumReqs == 2
NumResults == 2
MaxTime == 3
MaxTickCount == 3
MaxTickTime == 1
MaxExtra == 0

(* bounds of SweepSpec, the runs that start from a store holding one entry *)
MaxSweepTime == 6
MaxLastUpdated == 2
MaxSweepExtra == 1
NumSweepReqs == 1

Keys == {"/a", "/b"}
Reqs == 1..NumReqs
Results == 1..NumResults
NoResult == 0
ZeroResult == 1
SweepReqs == 1..NumSweepReqs
ScanLog == "scan"

VARIABLES
    TickCount,            \* SpongeHandler.TickCount
    TickTime,             \* SpongeHandler.TickTime
    CacheExtraExpiration, \* SpongeHandler.CacheExtraExpiration
    now,                  \* time.Now()
    cache,                \* map[string]SpongeProxyResult
    cacheExpire,          \* map[string]time.Time
    mutex,                \* holder of sh.mutex, Free when unlocked
    serveMutex,           \* request holding sh.serveMutex, 0 when unlocked
    req,                  \* per ServeHTTP call: pc, key, result, ok, written
    poll,                 \* per checkTick goroutine: pc, i, result, err, sp, wake
    sweep,                \* doCacheExpiry goroutine: its pc
    handleErrorCalls,     \* per request: calls of Proxy.HandleError(err, writer)
    evictions,            \* history: per key, number of deletions by the sweeper;
                          \* under SweepSpec also, at ScanLog, the time of the
                          \* latest scan
    hist                  \* history per request / poll session

vars == <<TickCount, TickTime, CacheExtraExpiration, now, cache, cacheExpire,
          mutex, serveMutex, req, poll, sweep, handleErrorCalls, evictions, hist>>

config == <<TickCount, TickTime, CacheExtraExpiration>>

(* ------------------------------ helpers ------------------------------- *)
Free == <<>>
ReqId(r) == <<"req", r>>
PollId(r) == <<"poll", r>>
SweepId == <<"sweep", 0>>

EmptyMap == [k \in {} |-> 0]

(* m[k] = v on a Go map *)
MapPut(m, k, v) == [x \in (DOMAIN m) \cup {k} |-> IF x = k THEN v ELSE m[x]]

(* delete(m, k) on a Go map *)
MapDelete(m, ks) == [x \in (DOMAIN m) \ ks |-> m[x]]

(* SpongeProxyResult.Equal: the caller-supplied equality of two results *)
Equal(a, b) == a = b

(* Proxy.MakeBackendRequest: a result and no error, or an error together   *)
(* with the zero result MyResult{} as the example proxy returns it         *)
MakeBackendRequest ==
    {[result |-> res, err |-> FALSE] : res \in Results}
        \cup {[result |-> ZeroResult, err |-> TRUE]}

(* a lookup that hands back the zero result instead of the stored value *)
GetCache_ZeroValue(key) ==
    [value |-> IF key \in DOMAIN cache THEN ZeroResult ELSE NoResult,
     ok    |-> key \in DOMAIN cache]

(* value, ok := sh.cache[key] *)
GetCache(key) ==
    [value |-> IF key \in DOMAIN cache THEN cache[key] ELSE NoResult,
     ok    |-> key \in DOMAIN cache]

(* a SetCache that forgets cacheExpire *)
SetCacheExpire_Skipped(key) == cacheExpire

(* SetCache: both maps are written under one hold of the lock *)
SetCacheExpire(key) == MapPut(cacheExpire, key, now)

SetCacheValue(key, value) == MapPut(cache, key, value)

(* the sweeper's test: time.Now().Add(-expiration_time).After(value.Add(Extra)) *)
ExpirationTime == CacheExtraExpiration + TickCount * TickTime

(* a test that also deletes an entry whose age equals the expiration time *)
Expired_AtThreshold(value) == now - ExpirationTime >= value + CacheExtraExpiration

Expired(value) == now - ExpirationTime > value + CacheExtraExpiration

(* a loop header that lets one more iteration through *)
LoopPc_OneMore(i) == IF i <= TickCount THEN "fetch" ELSE "exit"

(* the loop header of the poller: i < sh.TickCount *)
LoopPc(i) == IF i < TickCount THEN "fetch" ELSE "exit"

(* after the if-block of an iteration: send on sp if it is not nil, then sleep *)
AfterStore(p) == IF p.sp THEN [p EXCEPT !.pc = "send", !.err = FALSE]
                 ELSE [p EXCEPT !.pc = "sleep", !.wake = now + TickTime,
                                !.result = NoResult, !.err = FALSE]

(* caches a caller may hand to Init *)
InitCaches == {EmptyMap, [k \in {"/b"} |-> ZeroResult]}

(* ------------------------------- Init --------------------------------- *)
Init ==
    /\ TickCount \in 0..MaxTickCount
    /\ TickTime \in 1..MaxTickTime
    /\ CacheExtraExpiration \in 0..MaxExtra
    /\ now = 0
    /\ cache \in InitCaches
    /\ cacheExpire = EmptyMap
    /\ mutex = Free
    /\ serveMutex = 0
    /\ req = [r \in Reqs |-> [pc |-> "idle", key |-> "/a", result |-> NoResult,
                              ok |-> FALSE, written |-> NoResult]]
    /\ poll = [r \in Reqs |-> [pc |-> "none", i |-> 0, result |-> NoResult,
                               err |-> FALSE, sp |-> FALSE, wake |-> 0]]
    /\ sweep = "lock"
    /\ handleErrorCalls = [r \in Reqs |-> 0]
    /\ evictions = [k \in Keys |-> 0]
    /\ hist = [r \in Reqs |-> [missEpoch |-> -1, waiters |-> {}, seen |-> NoResult,
                               fetches |-> 0, coldFailed |-> FALSE,
                               changed |-> FALSE, installs |-> 0,
                               allEqual |-> TRUE, polls |-> 0,
                               coldValue |-> NoResult,
                               coldTime |-> -1]]

(* ------------------------------ clock --------------------------------- *)
Tick ==
    /\ now < MaxTime
    /\ now' = now + 1
    /\ UNCHANGED <<config, cache, cacheExpire, mutex, serveMutex, req, poll,
                   sweep, handleErrorCalls, evictions, hist>>

(* ----------------------------- ServeHTTP ------------------------------ *)
(* a request for key k arrives and blocks on sh.serveMutex.Lock() *)
Arrive(r, k) ==
    /\ req[r].pc = "idle"
    /\ \A q \in Reqs : q < r => req[q].pc # "idle"
    /\ req' = [req EXCEPT ![r].pc = "lock", ![r].key = k]
    /\ UNCHANGED <<config, now, cache, cacheExpire, mutex, serveMutex, poll,
                   sweep, handleErrorCalls, evictions, hist>>

(* a ServeHTTP that does not wait for serveMutex *)
ServeHTTP_Lock_NoWait(r) ==
    /\ req[r].pc = "lock"
    /\ serveMutex' = r
    /\ req' = [req EXCEPT ![r].pc = "getlock"]
    /\ UNCHANGED <<config, now, cache, cacheExpire, mutex, poll, sweep,
                   handleErrorCalls, evictions, hist>>

(* sh.serveMutex.Lock() *)
ServeHTTP_Lock(r) ==
    /\ req[r].pc = "lock"
    /\ serveMutex = 0
    /\ serveMutex' = r
    /\ req' = [req EXCEPT ![r].pc = "getlock"]
    /\ UNCHANGED <<config, now, cache, cacheExpire, mutex, poll, sweep,
                   handleErrorCalls, evictions, hist>>

(* sh.GetCache(key): sh.mutex.Lock() *)
ServeHTTP_GetCacheLock(r) ==
    /\ req[r].pc = "getlock"
    /\ mutex = Free
    /\ mutex' = ReqId(r)
    /\ req' = [req EXCEPT ![r].pc = "get"]
    /\ UNCHANGED <<config, now, cache, cacheExpire, serveMutex, poll, sweep,
                   handleErrorCalls, evictions, hist>>

(* sh.GetCache(key) returns and unlocks; on a miss checkTick makes the      *)
(* channel, starts the goroutine and blocks on <-sp                         *)
ServeHTTP_GetCache(r) ==
    /\ req[r].pc = "get"
    /\ mutex' = Free
    /\ LET key == req[r].key
           g == GetCache(key)
       IN IF g.ok
          THEN /\ req' = [req EXCEPT ![r].pc = "write", ![r].ok = TRUE,
                                     ![r].result = g.value]
               /\ hist' = [hist EXCEPT ![r].seen = cache[key]]
               /\ UNCHANGED poll
          ELSE /\ req' = [req EXCEPT ![r].pc = "recv", ![r].ok = FALSE]
               /\ poll' = [poll EXCEPT ![r].pc = LoopPc(0), ![r].i = 0,
                                       ![r].sp = TRUE]
               /\ hist' = [hist EXCEPT
                     ![r].missEpoch = evictions[key],
                     ![r].waiters = {q \in Reqs \ {r} :
                                       req[q].pc = "lock" /\ req[q].key = key}]
    /\ UNCHANGED <<config, now, cache, cacheExpire, serveMutex, sweep,
                   handleErrorCalls, evictions>>

(* result.WriteToHTTP(writer), then the deferred sh.serveMutex.Unlock() *)
ServeHTTP_Write(r) ==
    /\ req[r].pc = "write"
    /\ req' = [req EXCEPT ![r].pc = "done", ![r].written = req[r].result,
                           ![r].result = NoResult]
    /\ serveMutex' = 0
    /\ UNCHANGED <<config, now, cache, cacheExpire, mutex, poll, sweep,
                   handleErrorCalls, evictions, hist>>

(* ------------------------ checkTick goroutine ------------------------- *)
(* result, err := sh.Proxy.MakeBackendRequest(request) returns *)
checkTick_Fetch(r) ==
    /\ poll[r].pc = "fetch"
    /\ \E b \in MakeBackendRequest :
          poll' = [poll EXCEPT ![r].pc = "getlock", ![r].result = b.result,
                               ![r].err = b.err]
    /\ hist' = [hist EXCEPT ![r].fetches = @ + 1]
    /\ UNCHANGED <<config, now, cache, cacheExpire, mutex, serveMutex, req,
                   sweep, handleErrorCalls, evictions>>

(* sh.GetCache(key): sh.mutex.Lock() *)
checkTick_GetCacheLock(r) ==
    /\ poll[r].pc = "getlock"
    /\ mutex = Free
    /\ mutex' = PollId(r)
    /\ poll' = [poll EXCEPT ![r].pc = "get"]
    /\ UNCHANGED <<config, now, cache, cacheExpire, serveMutex, req, sweep,
                   handleErrorCalls, evictions, hist>>

(* a poller that installs the Result of a failed attempt: the test of err *)
(* is left out                                                             *)
checkTick_GetCache_ErrInstalls(r) ==
    /\ poll[r].pc = "get"
    /\ mutex' = Free
    /\ LET key == req[r].key
           g == GetCache(key)
           p == poll[r]
           differs == ~g.ok \/ ~Equal(g.value, p.result)
       IN /\ IF differs
             THEN poll' = [poll EXCEPT ![r].pc = "setlock"]
             ELSE poll' = [poll EXCEPT ![r] = AfterStore(p)]
          /\ hist' = [hist EXCEPT
                ![r].coldFailed = @ \/ (p.sp /\ differs /\ p.err),
                ![r].changed = @ \/ (g.ok /\ differs /\ ~p.err),
                ![r].allEqual = @ /\ (p.sp \/ (g.ok /\ ~differs)),
                ![r].polls = IF p.sp THEN @ ELSE @ + 1]
    /\ UNCHANGED <<config, now, cache, cacheExpire, serveMutex, req, sweep,
                   handleErrorCalls, evictions>>

(* if val, ok := sh.GetCache(key); !ok || !val.Equal(result) { ... } *)
checkTick_GetCache(r) ==
    /\ poll[r].pc = "get"
    /\ mutex' = Free
    /\ LET key == req[r].key
           g == GetCache(key)
           p == poll[r]
           differs == ~g.ok \/ ~Equal(g.value, p.result)
       IN /\ IF differs
             THEN IF p.err
                  THEN \* log.Println; continue: no send, no sleep
                       poll' = [poll EXCEPT ![r].pc = LoopPc(p.i + 1),
                                            ![r].i = p.i + 1,
                                            ![r].result = NoResult,
                                            ![r].err = FALSE]
                  ELSE poll' = [poll EXCEPT ![r].pc = "setlock"]
             ELSE poll' = [poll EXCEPT ![r] = AfterStore(p)]
          /\ hist' = [hist EXCEPT
                ![r].coldFailed = @ \/ (p.sp /\ differs /\ p.err),
                ![r].changed = @ \/ (g.ok /\ differs /\ ~p.err),
                ![r].allEqual = @ /\ (p.sp \/ (g.ok /\ ~differs)),
                ![r].polls = IF p.sp THEN @ ELSE @ + 1]
    /\ UNCHANGED <<config, now, cache, cacheExpire, serveMutex, req, sweep,
                   handleErrorCalls, evictions>>

(* a SetCache that does not wait for sh.mutex *)
checkTick_SetCacheLock_NoWait(r) ==
    /\ poll[r].pc = "setlock"
    /\ mutex' = PollId(r)
    /\ poll' = [poll EXCEPT ![r].pc = "set"]
    /\ UNCHANGED <<config, now, cache, cacheExpire, serveMutex, req, sweep,
                   handleErrorCalls, evictions, hist>>

(* sh.SetCache(request, result): sh.mutex.Lock() *)
checkTick_SetCacheLock(r) ==
    /\ poll[r].pc = "setlock"
    /\ mutex = Free
    /\ mutex' = PollId(r)
    /\ poll' = [poll EXCEPT ![r].pc = "set"]
    /\ UNCHANGED <<config, now, cache, cacheExpire, serveMutex, req, sweep,
                   handleErrorCalls, evictions, hist>>

(* sh.SetCache(request, result): write both maps, unlock *)
checkTick_SetCache(r) ==
    /\ poll[r].pc = "set"
    /\ LET key == req[r].key
           p == poll[r]
       IN /\ cache' = SetCacheValue(key, p.result)
          /\ cacheExpire' = SetCacheExpire(key)
          /\ poll' = [poll EXCEPT ![r] = AfterStore(p)]
          /\ hist' = [hist EXCEPT
                ![r].installs = @ + 1,
                ![r].coldValue = IF p.sp THEN p.result ELSE @,
                ![r].coldTime = IF p.sp THEN now ELSE @]
    /\ mutex' = Free
    /\ UNCHANGED <<config, now, serveMutex, req, sweep, handleErrorCalls,
                   evictions>>

(* sp <- tickChan{result, err}; sp = nil, meeting res := <-sp in checkTick, *)
(* which returns res.result, res.err; ServeHTTP discards the error          *)
checkTick_Send(r) ==
    /\ poll[r].pc = "send"
    /\ req[r].pc = "recv"
    /\ req' = [req EXCEPT ![r].pc = "write", ![r].result = poll[r].result]
    /\ poll' = [poll EXCEPT ![r].pc = "sleep", ![r].sp = FALSE,
                            ![r].wake = now + TickTime,
                            ![r].result = NoResult]
    /\ UNCHANGED <<config, now, cache, cacheExpire, mutex, serveMutex, sweep,
                   handleErrorCalls, evictions, hist>>

(* a poller that takes sh.mutex before it calls the backend *)
checkTick_Wake_Locked(r) ==
    /\ poll[r].pc = "sleep"
    /\ now >= poll[r].wake
    /\ mutex = Free
    /\ mutex' = IF LoopPc(poll[r].i + 1) = "fetch" THEN PollId(r) ELSE Free
    /\ poll' = [poll EXCEPT ![r].pc = LoopPc(poll[r].i + 1),
                            ![r].i = poll[r].i + 1, ![r].wake = 0]
    /\ UNCHANGED <<config, now, cache, cacheExpire, serveMutex, req,
                   sweep, handleErrorCalls, evictions, hist>>

(* time.Sleep(sh.TickTime) returns; i++ and the loop test *)
checkTick_Wake(r) ==
    /\ poll[r].pc = "sleep"
    /\ now >= poll[r].wake
    /\ poll' = [poll EXCEPT ![r].pc = LoopPc(poll[r].i + 1),
                            ![r].i = poll[r].i + 1, ![r].wake = 0]
    /\ UNCHANGED <<config, now, cache, cacheExpire, mutex, serveMutex, req,
                   sweep, handleErrorCalls, evictions, hist>>

(* --------------------------- doCacheExpiry ---------------------------- *)
(* sh.mutex.Lock() at the head of an iteration of the for loop.  The      *)
(* time.Sleep(sh.CacheRunExpiration) that precedes it may end at any time: *)
(* CacheRunExpiration is configuration and may be as small as 0.           *)
doCacheExpiry_Lock ==
    /\ sweep = "lock"
    /\ mutex = Free
    /\ mutex' = SweepId
    /\ sweep' = "scan"
    /\ UNCHANGED <<config, now, cache, cacheExpire, serveMutex, req, poll,
                   handleErrorCalls, evictions, hist>>

(* the range loop over cacheExpire, then sh.mutex.Unlock() *)
doCacheExpiry_Scan ==
    /\ sweep = "scan"
    /\ LET dead == {k \in DOMAIN cacheExpire : Expired(cacheExpire[k])}
       IN /\ cacheExpire' = MapDelete(cacheExpire, dead)
          /\ cache' = MapDelete(cache, dead)
          /\ evictions' = [k \in DOMAIN evictions |->
                             IF k = ScanLog THEN now
                             ELSE IF k \in dead THEN evictions[k] + 1
                             ELSE evictions[k]]
    /\ mutex' = Free
    /\ sweep' = "lock"
    /\ UNCHANGED <<config, now, serveMutex, req, poll, handleErrorCalls, hist>>

(* ------------------------------- Next --------------------------------- *)
Next ==
    \/ Tick
    \/ \E r \in Reqs, k \in Keys : Arrive(r, k)
    \/ \E r \in Reqs : ServeHTTP_Lock(r)
    \/ \E r \in Reqs : ServeHTTP_GetCacheLock(r)
    \/ \E r \in Reqs : ServeHTTP_GetCache(r)
    \/ \E r \in Reqs : ServeHTTP_Write(r)
    \/ \E r \in Reqs : checkTick_Fetch(r)
    \/ \E r \in Reqs : checkTick_GetCacheLock(r)
    \/ \E r \in Reqs : checkTick_GetCache(r)
    \/ \E r \in Reqs : checkTick_SetCacheLock(r)
    \/ \E r \in Reqs : checkTick_SetCache(r)
    \/ \E r \in Reqs : checkTick_Send(r)
    \/ \E r \in Reqs : checkTick_Wake(r)
    \/ doCacheExpiry_Lock
    \/ doCacheExpiry_Scan

Spec == Init /\ [][Next]_vars

(* ----------------------------- SweepSpec ------------------------------ *)
(* Runs that start later in the life of the handler: an earlier session    *)
(* for "/a" (of a request that is not among Reqs) installed a Result at    *)
(* time lastUpdated with its last attempt, slept TickTime and ended; the   *)
(* clock is not capped at MaxTime, so that an entry can outlive its        *)
(* expiration time, and each scan is logged.                               *)
SweepInit ==
    /\ TickCount \in 1..MaxTickCount
    /\ TickTime \in 1..MaxTickTime
    /\ CacheExtraExpiration \in 0..MaxSweepExtra
    /\ \E lastUpdated \in 0..MaxLastUpdated :
          /\ now = lastUpdated + TickTime
          /\ cacheExpire = [k \in {"/a"} |-> lastUpdated]
    /\ \E res \in Results : cache = [k \in {"/a"} |-> res]
    /\ mutex = Free
    /\ serveMutex = 0
    /\ req = [r \in Reqs |-> [pc |-> "idle", key |-> "/a", result |-> NoResult,
                              ok |-> FALSE, written |-> NoResult]]
    /\ poll = [r \in Reqs |-> [pc |-> "none", i |-> 0, result |-> NoResult,
                               err |-> FALSE, sp |-> FALSE, wake |-> 0]]
    /\ sweep = "lock"
    /\ handleErrorCalls = [r \in Reqs |-> 0]
    /\ evictions = [k \in Keys \cup {ScanLog} |-> IF k = ScanLog THEN -1 ELSE 0]
    /\ hist = [r \in Reqs |-> [missEpoch |-> -1, waiters |-> {}, seen |-> NoResult,
                               fetches |-> 0, coldFailed |-> FALSE,
                               changed |-> FALSE, installs |-> 0,
                               allEqual |-> TRUE, polls |-> 0,
                               coldValue |-> NoResult,
                               coldTime |-> -1]]

SweepTick ==
    /\ now < MaxSweepTime
    /\ now' = now + 1
    /\ UNCHANGED <<config, cache, cacheExpire, mutex, serveMutex, req, poll,
                   sweep, handleErrorCalls, evictions, hist>>

SweepNext ==
    \/ SweepTick
    \/ \E r \in SweepReqs, k \in Keys : Arrive(r, k)
    \/ \E r \in SweepReqs : ServeHTTP_Lock(r)
    \/ \E r \in SweepReqs : ServeHTTP_GetCacheLock(r)
    \/ \E r \in SweepReqs : ServeHTTP_GetCache(r)
    \/ \E r \in SweepReqs : ServeHTTP_Write(r)
    \/ \E r \in SweepReqs : checkTick_Fetch(r)
    \/ \E r \in SweepReqs : checkTick_GetCacheLock(r)
    \/ \E r \in SweepReqs : checkTick_GetCache(r)
    \/ \E r \in SweepReqs : checkTick_SetCacheLock(r)
    \/ \E r \in SweepReqs : checkTick_SetCache(r)
    \/ \E r \in SweepReqs : checkTick_Send(r)
    \/ \E r \in SweepReqs : checkTick_Wake(r)
    \/ doCacheExpiry_Lock
    \/ doCacheExpiry_Scan

SweepSpec == SweepInit /\ [][SweepNext]_vars

(* ------------------------------ LiveSpec ------------------------------ *)
(* Runs of the requests SweepReqs under fair scheduling.  Up to MaxTime    *)
(* the clock is counted; after that, time still passes but is no longer    *)
(* counted: a tick then only lets the sleeps that are still pending run    *)
(* out.                                                                    *)
LiveTick ==
    \/ /\ now < MaxTime
       /\ now' = now + 1
       /\ UNCHANGED poll
    \/ /\ now = MaxTime
       /\ \E r \in Reqs : poll[r].pc = "sleep" /\ poll[r].wake > now
       /\ now' = now
       /\ poll' = [r \in Reqs |->
                     IF poll[r].pc = "sleep" /\ poll[r].wake > now
                     THEN [poll[r] EXCEPT !.wake = now] ELSE poll[r]]
    /\ UNCHANGED <<config, cache, cacheExpire, mutex, serveMutex, req,
                   sweep, handleErrorCalls, evictions, hist>>

LiveNext ==
    \/ LiveTick
    \/ \E r \in SweepReqs, k \in Keys : Arrive(r, k)
    \/ \E r \in SweepReqs : ServeHTTP_Lock(r)
    \/ \E r \in SweepReqs : ServeHTTP_GetCacheLock(r)
    \/ \E r \in SweepReqs : ServeHTTP_GetCache(r)
    \/ \E r \in SweepReqs : ServeHTTP_Write(r)
    \/ \E r \in SweepReqs : checkTick_Fetch(r)
    \/ \E r \in SweepReqs : checkTick_GetCacheLock(r)
    \/ \E r \in SweepReqs : checkTick_GetCache(r)
    \/ \E r \in SweepReqs : checkTick_SetCacheLock(r)
    \/ \E r \in SweepReqs : checkTick_SetCache(r)
    \/ \E r \in SweepReqs : checkTick_Send(r)
    \/ \E r \in SweepReqs : checkTick_Wake(r)
    \/ doCacheExpiry_Lock
    \/ doCacheExpiry_Scan

(* time passes; every backend call returns; a goroutine that can run does  *)
(* run; sync.Mutex hands the lock to a goroutine that keeps waiting for it *)
Fairness ==
    /\ WF_vars(LiveTick)
    /\ WF_vars(doCacheExpiry_Scan)
    /\ \A r \in SweepReqs :
          /\ WF_vars(ServeHTTP_GetCache(r))
          /\ WF_vars(checkTick_Fetch(r))
          /\ SF_vars(checkTick_GetCacheLock(r))
          /\ WF_vars(checkTick_GetCache(r))
          /\ SF_vars(checkTick_SetCacheLock(r))
          /\ WF_vars(checkTick_SetCache(r))
          /\ WF_vars(checkTick_Send(r))
          /\ WF_vars(checkTick_Wake(r))

LiveSpec == Init /\ [][LiveNext]_vars /\ Fairness

(* ------------------------------ claims -------------------------------- *)
Missed(r) == poll[r].pc # "none"
Active(r) == poll[r].pc \notin {"none", "exit"}
Answered(r) == req[r].pc \in {"write", "done"}

C2_SameResult ==
    \A r \in Reqs : \A q \in hist[r].waiters :
        (req[r].pc = "done" /\ req[q].pc = "done" /\ evictions[req[r].key] = 0)
            => req[q].written = req[r].written

(* C3: no call for key B waits on a lock held by a call for another key A  *)
(* whose backend fetch is in progress.                                     *)
C3_NoCrossKeyBlocking ==
    \A a \in Reqs : \A b \in Reqs \ {a} :
        ~ /\ req[a].key # req[b].key
          /\ serveMutex = a
          /\ req[a].pc = "recv" /\ poll[a].pc = "fetch"
          /\ req[b].pc = "lock"

(* C4: a call that finds its key in the store makes no backend request,    *)
(* starts no poll session and writes the value stored at its lookup.       *)
C4_HitSuppressesFetch ==
    \A r \in Reqs :
        req[r].ok =>
            /\ ~Missed(r)
            /\ hist[r].fetches = 0
            /\ req[r].pc = "write" => req[r].result = hist[r].seen
            /\ req[r].pc = "done" => req[r].written = hist[r].seen

C4_Witness ==
    \E r \in Reqs : \E q \in Reqs \ {r} :
        /\ req[q].key = req[r].key
        /\ hist[q].installs >= 1
        /\ req[r].pc = "done" /\ req[r].ok
        /\ req[r].written = 2

(* C5: a cold fetch that failed has had Proxy.HandleError called exactly   *)
(* once for it by the time its goroutine has ended.                        *)
C5_HandleErrorOnce ==
    \A r \in Reqs :
        (hist[r].coldFailed /\ poll[r].pc = "exit") => handleErrorCalls[r] = 1

(* C6: no call is left blocked on <-sp: a call that waits on the channel   *)
(* always has a goroutine that can still send on it.                       *)
C6_NeverBlockedForever ==
    \A r \in Reqs : req[r].pc = "recv" => poll[r].pc # "exit"

(* C7: once an attempt of a session has returned a Result that is not      *)
(* Equal to the cached one, the session makes no further backend request.  *)
C7_PollStopsOnChange ==
    \A r \in Reqs : hist[r].changed => poll[r].pc # "fetch"

(* C8: a successful poll attempt whose Result is not Equal to the cached   *)
(* one goes on to SetCache, and SetCache leaves the key holding that       *)
(* Result with LastUpdated = now, both maps written in the one step that   *)
(* holds the store lock.                                                   *)
C8_PollInstalls ==
    [][\A r \in Reqs :
         LET key == req[r].key
             p == poll[r]
         IN /\ ( /\ p.pc = "get" /\ poll'[r].pc # "get"
                 /\ key \in DOMAIN cache
                 /\ ~Equal(cache[key], p.result) /\ ~p.err )
               => poll'[r].pc = "setlock"
            /\ (p.pc = "setlock" /\ poll'[r].pc # "setlock")
               => (poll'[r].pc = "set" /\ poll'[r].result = p.result)
            /\ (p.pc = "set" /\ poll'[r].pc # "set")
               => /\ mutex = PollId(r)
                  /\ key \in DOMAIN cache' /\ cache'[key] = p.result
                  /\ key \in DOMAIN cacheExpire' /\ cacheExpire'[key] = now
      ]_vars

C8_Witness ==
    \E r \in Reqs :
        LET key == req[r].key
        IN /\ hist[r].changed /\ hist[r].installs = 2
           /\ poll[r].pc = "sleep"
           /\ key \in DOMAIN cache /\ cache[key] # hist[r].coldValue
           /\ key \in DOMAIN cacheExpire /\ cacheExpire[key] > hist[r].coldTime

(* C9: when a session whose poll attempts (at least one) all returned a    *)
(* Result Equal to the cached one ends, the entry (if still present) holds *)
(* the Result and the LastUpdated that the session's cold fetch installed. *)
C9_ExhaustionLeavesEntry ==
    [][\A r \in Reqs :
         LET key == req[r].key
         IN ( /\ poll[r].pc # "exit" /\ poll'[r].pc = "exit"
              /\ hist'[r].allEqual /\ hist'[r].coldTime >= 0
              /\ hist'[r].polls >= 1
              /\ key \in DOMAIN cache' /\ key \in DOMAIN cacheExpire' )
            => /\ cache'[key] = hist'[r].coldValue
               /\ cacheExpire'[key] = hist'[r].coldTime
      ]_vars

(* C10: at most one poll session is active for any key.                    *)
C10_OneSessionPerKey ==
    \A r \in Reqs : \A q \in Reqs \ {r} :
        req[r].key = req[q].key => ~(Active(r) /\ Active(q))

(* a step of the sweeper that scans the store *)
ScanStep == sweep = "scan" /\ sweep' = "lock"

(* the age of the entry of key k: now minus its LastUpdated *)
Age(k) == now - cacheExpire[k]

(* C11: for all CacheExtraExpiration, TickTime and TickCount, a scan       *)
(* deletes every entry whose age is greater than                           *)
(* CacheExtraExpiration + TickTime*TickCount and keeps every entry whose   *)
(* age is less than that.                                                  *)
C11_ExpirationThreshold ==
    [][ScanStep =>
          \A k \in DOMAIN cacheExpire :
             LET threshold == CacheExtraExpiration + TickTime * TickCount
             IN /\ Age(k) > threshold
                     => (k \notin DOMAIN cache' /\ k \notin DOMAIN cacheExpire')
                /\ Age(k) < threshold
                     => (k \in DOMAIN cacheExpire' /\ k \in DOMAIN cache')
      ]_vars

(* the configuration and the entry of the concrete scenario *)
C12_Scenario ==
    /\ TickTime = 1 /\ TickCount = 3 /\ CacheExtraExpiration = 0
    /\ "/a" \in DOMAIN cacheExpire /\ cacheExpire["/a"] = 2
    /\ "/a" \in DOMAIN cache

(* C12, as stated: with TickTime 1, TickCount 3, CacheExtraExpiration 0 and *)
(* LastUpdated 2, the scan at time 5 (age equal to the threshold 3) deletes *)
(* the entry.                                                               *)
C12_BoundaryEvicts_AsStated ==
    [][(C12_Scenario /\ ScanStep /\ now = 5) => "/a" \notin DOMAIN cache']_vars

(* C12, amended: in that scenario a scan at time 5 or earlier leaves the    *)
(* entry in both maps (the age must exceed the threshold), a scan at time 6 *)
(* or later deletes it from both, and a lookup of "/a" misses only after    *)
(* such a deletion: while the entry is there the call at time 6 is a hit.   *)
C12_Boundary ==
    [][/\ (C12_Scenario /\ ScanStep /\ now <= 5)
             => (cache' = cache /\ cacheExpire' = cacheExpire)
       /\ (C12_Scenario /\ ScanStep /\ now >= 6)
             => ("/a" \notin DOMAIN cache' /\ "/a" \notin DOMAIN cacheExpire')
       /\ \A r \in Reqs :
             (req[r].pc = "get" /\ req'[r].pc # "get" /\ req[r].key = "/a")
                => /\ C12_Scenario => req'[r].pc = "write" /\ req'[r].ok
                   /\ req'[r].pc = "recv" => evictions["/a"] >= 1
      ]_vars

C12_Witness ==
    /\ C12_Scenario
    /\ now = 6
    /\ ScanLog \in DOMAIN evictions /\ evictions[ScanLog] = 5
    /\ \E r \in Reqs : req[r].key = "/a" /\ req[r].pc = "done" /\ req[r].ok

(* the calls for key k that have already looked the key up *)
LookedUp(k) ==
    {q \in Reqs : req[q].key = k /\ req[q].pc \in {"recv", "write", "done"}}

(* C13: once the sweeper has deleted a key, the next call for that key     *)
(* (every earlier call looked the key up before the deletion) finds the    *)
(* key absent and starts a cold fetch.                                     *)
C13_RestartAfterEviction ==
    [][\A r \in Reqs :
         LET k == req[r].key
         IN ( /\ req[r].pc = "get" /\ req'[r].pc # "get"
              /\ evictions[k] >= 1
              /\ \A q \in LookedUp(k) :
                    Missed(q) /\ hist[q].missEpoch < evictions[k] )
            => req'[r].pc = "recv"
      ]_vars

(* C14: every key of cache has an entry in cacheExpire, the keys of a      *)
(* cache handed to Init included.                                          *)
C14_EveryKeyHasLastUpdated == DOMAIN cache \subseteq DOMAIN cacheExpire

(* C15: a key becomes present only by the SetCache of a cold fetch (sp not *)
(* yet nil); the SetCache of a poll attempt finds its key present; a key   *)
(* disappears only by a scan of the sweeper.                               *)
C15_EntryLifecycle ==
    [][/\ \A r \in Reqs :
             (poll[r].pc = "set" /\ poll'[r].pc # "set")
                => (poll[r].sp \/ req[r].key \in DOMAIN cache)
       /\ (DOMAIN cache' \ DOMAIN cache # {})
             => \E r \in Reqs : poll[r].pc = "set" /\ poll'[r].pc # "set"
       /\ (DOMAIN cache \ DOMAIN cache' # {}) => ScanStep
      ]_vars

(* C16: while a goroutine is inside MakeBackendRequest, neither it nor the *)
(* call it works for holds sh.mutex; whoever holds sh.mutex is inside      *)
(* GetCache, SetCache or the scan, whose next step releases it without     *)
(* waiting for a backend.                                                  *)
C16_NoLockAcrossBackend ==
    /\ \A r \in Reqs :
          /\ poll[r].pc = "fetch" => mutex \notin {PollId(r), ReqId(r)}
          /\ mutex = PollId(r) => poll[r].pc \in {"get", "set"}
          /\ mutex = ReqId(r) => req[r].pc = "get"
    /\ mutex = SweepId => sweep = "scan"

C16_Witness ==
    \E r \in Reqs : \E q \in Reqs \ {r} :
        /\ poll[r].pc = "fetch" /\ hist[r].fetches >= 1
        /\ mutex = PollId(q) /\ poll[q].pc = "set"

(* the goroutines that are reading or writing the store maps *)
InCritical ==
    {ReqId(r) : r \in {x \in Reqs : req[x].pc = "get"}}
        \cup {PollId(r) : r \in {x \in Reqs : poll[x].pc \in {"get", "set"}}}
        \cup (IF sweep = "scan" THEN {SweepId} ELSE {})

(* C17: a goroutine reads or writes cache and cacheExpire only while it    *)
(* holds sh.mutex, so at most one does at a time; both maps change in the  *)
(* step of the holder that releases the lock, and a key is written to or   *)
(* deleted from both maps within that one hold.                            *)
C17_StoreAccessUnderLock ==
    [][/\ InCritical = (IF mutex = Free THEN {} ELSE {mutex})
       /\ (cache' # cache \/ cacheExpire' # cacheExpire)
             => /\ mutex # Free /\ mutex' = Free
                /\ InCritical' = {}
                /\ DOMAIN cache \ DOMAIN cache'
                      = DOMAIN cacheExpire \ DOMAIN cacheExpire'
                /\ DOMAIN cacheExpire' \ DOMAIN cacheExpire
                      \subseteq DOMAIN cache'
                /\ DOMAIN cache' \ DOMAIN cache
                      \subseteq DOMAIN cacheExpire'
      ]_vars

C17_Witness ==
    /\ mutex = SweepId /\ sweep = "scan"
    /\ \E k \in DOMAIN cacheExpire : Expired(cacheExpire[k])
    /\ \E r \in Reqs : poll[r].pc = "setlock"
    /\ \E q \in Reqs : req[q].pc = "getlock"

(* C18: a poll attempt whose backend call failed writes neither map, is    *)
(* never handed to SetCache, uses up one value of the loop counter i, and  *)
(* is followed by the next attempt whenever i + 1 < TickCount.             *)
C18_FailedPollAttempt ==
    [][\A r \in Reqs :
         LET p == poll[r]
         IN /\ p.pc \in {"setlock", "set"} => ~p.err
            /\ (p.pc = "get" /\ poll'[r].pc # "get" /\ p.err)
                 => /\ cache' = cache /\ cacheExpire' = cacheExpire
                    /\ \/ poll'[r].pc \in {"sleep", "send"} /\ poll'[r].i = p.i
                       \/ /\ poll'[r].i = p.i + 1
                          /\ poll'[r].pc = (IF p.i + 1 < TickCount
                                            THEN "fetch" ELSE "exit")
            /\ (p.pc = "sleep" /\ poll'[r].pc # "sleep")
                 => /\ poll'[r].i = p.i + 1
                    /\ poll'[r].pc = (IF p.i + 1 < TickCount
                                      THEN "fetch" ELSE "exit")
      ]_vars

C18_Witness ==
    \E r \in Reqs :
        LET key == req[r].key
        IN /\ poll[r].pc = "fetch" /\ poll[r].i = 2
           /\ hist[r].fetches = 2 /\ hist[r].polls = 1 /\ hist[r].installs = 1
           /\ ~hist[r].allEqual /\ ~hist[r].changed
           /\ evictions[key] = 0
           /\ \A q \in Reqs \ {r} : ~Missed(q)
           /\ key \in DOMAIN cache /\ cache[key] = hist[r].coldValue
           /\ key \in DOMAIN cacheExpire /\ cacheExpire[key] = hist[r].coldTime

(* C19: a session makes at most TickCount calls of MakeBackendRequest, and *)
(* once started its goroutine reaches the end of the loop, whatever the    *)
(* backend returns, provided every backend call returns.                   *)
C19_BoundedSession ==
    /\ [](\A r \in Reqs : hist[r].fetches <= TickCount /\ poll[r].i <= TickCount)
    /\ \A r \in Reqs : Missed(r) ~> (poll[r].pc = "exit")

C19_Witness ==
    \E r \in Reqs :
        /\ TickCount = MaxTickCount
        /\ poll[r].pc = "exit"
        /\ hist[r].fetches = TickCount
        /\ hist[r].changed /\ hist[r].polls = 2 /\ hist[r].installs = 2

(* C20: a session comes to a backend call other than its first only from   *)
(* a sleep of TickTime that has run out: two calls are never back to back. *)
C20_SleepBetweenFetches ==
    [][\A r \in Reqs :
         (poll[r].pc # "fetch" /\ poll'[r].pc = "fetch" /\ poll'[r].i >= 1)
            => (poll[r].pc = "sleep" /\ now >= poll[r].wake)
      ]_vars

(* C21: the call that missed waits on <-sp for the first backend call of   *)
(* its session only: while it waits no later attempt has begun, what is    *)
(* sent on sp is the outcome of the attempt i = 0, and once sp is nil the  *)
(* call has its answer and the session writes to the store only.           *)
C21_DetachedSession ==
    \A r \in Reqs :
        /\ req[r].pc = "recv" => (poll[r].i = 0 /\ hist[r].fetches <= 1)
        /\ poll[r].pc = "send" => (poll[r].i = 0 /\ req[r].pc = "recv")
        /\ (Missed(r) /\ ~poll[r].sp) => Answered(r)
====
